---------------------------- MODULE Spec2Model ----------------------------
(***************************************************************************)
(* comp_db_hook: a compiler wrapper that records its command line in       *)
(* compile_commands.json and then exec's the real compiler.                *)
(*                                                                         *)
(* Strings are sequences of one-character strings, so that StartsWith,     *)
(* EndsWith, StrCat and the ordering of std::string are computed as the    *)
(* code computes them.  A std::optional<T> is a record [has, v].           *)
(***************************************************************************)
EXTENDS Integers, Sequences, FiniteSets, TLC

(***************************************************************************)
(* Bounds of the model.                                                    *)
(***************************************************************************)
\* number of concurrent invocations of the hook
NProcs == 2
\* most arguments after argv[0] in the command lines the merge is run on
MaxArgs == 3
\* most entries in the databases the merge is run on
MaxEntries == 2

(***************************************************************************)
(* Strings.                                                                *)
(***************************************************************************)
\* the characters the model's strings are made of, in ASCII order
Alphabet == <<"+", "-", ".", "/", "F", "M", "_", "a", "b", "c", "d", "e",
              "g", "h", "i", "j", "l", "m", "n", "o", "p", "q", "r", "s", "t",
              "u", "v", "w", "x", "y">>

CharCode(c) == CHOOSE i \in 1..Len(Alphabet) : Alphabet[i] = c

\* absl::StartsWith(s, c) for a one-character prefix c
StartsWith(s, c) == Len(s) > 0 /\ s[1] = c

\* absl::EndsWith(s, c) for a one-character suffix c
EndsWith(s, c) == Len(s) > 0 /\ s[Len(s)] = c

\* std::string_view::operator< : lexicographic on the bytes
StrLess(a, b) ==
  \E i \in 1..(Len(b)) :
     /\ \A j \in 1..(i - 1) : j <= Len(a) /\ a[j] = b[j]
     /\ \/ i = Len(a) + 1
        \/ i <= Len(a) /\ CharCode(a[i]) < CharCode(b[i])

\* std::optional
Some(x) == [has |-> TRUE, v |-> x]
None == [has |-> FALSE, v |-> <<>>]
ValueOr(o, d) == IF o.has THEN o.v ELSE d

(***************************************************************************)
(* Program constants.                                                      *)
(***************************************************************************)
kDefaultCompilerName == <<"c", "l", "a", "n", "g", "+", "+">>

kCommandFileName ==
  <<"c", "o", "m", "p", "i", "l", "e", "_", "c", "o", "m", "m", "a", "n", "d",
    "s", ".", "j", "s", "o", "n">>

kCompilerFlagsWithArgument ==
  { <<"-", "M", "F">>, <<"-", "i", "n", "c", "l", "u", "d", "e">>,
    <<"-", "i", "q", "u", "o", "t", "e">>,
    <<"-", "i", "s", "y", "s", "t", "e", "m">>,
    <<"-", "o">>, <<"-", "t", "a", "r", "g", "e", "t">> }

(***************************************************************************)
(* JoinPath and SourceFile.                                                *)
(***************************************************************************)
\* a join that puts the base directory before an absolute file name too
JoinPathNoBypass(base_directory, file_name) ==
  IF base_directory = <<>>
    THEN file_name
    ELSE IF EndsWith(base_directory, "/")
      THEN base_directory \o file_name
      ELSE base_directory \o <<"/">> \o file_name

\* a join that always puts a "/" between the base directory and the file
JoinPathAlwaysSlash(base_directory, file_name) ==
  IF base_directory = <<>> \/ StartsWith(file_name, "/")
    THEN file_name
    ELSE base_directory \o <<"/">> \o file_name

\* a join that roots the result when the base directory is empty
JoinPathRooted(base_directory, file_name) ==
  IF StartsWith(file_name, "/") THEN file_name
  ELSE IF base_directory = <<>> THEN <<"/">> \o file_name
  ELSE IF EndsWith(base_directory, "/")
    THEN base_directory \o file_name
    ELSE base_directory \o <<"/">> \o file_name

JoinPath(base_directory, file_name) ==
  IF base_directory = <<>> \/ StartsWith(file_name, "/")
    THEN file_name
    ELSE IF EndsWith(base_directory, "/")
      THEN base_directory \o file_name
      ELSE base_directory \o <<"/">> \o file_name

SourceFile(base_directory, relative_path) ==
  [relative_path |-> relative_path,
   absolute_path |-> JoinPath(base_directory, relative_path)]

\* SourceFile::Less
Less(lhs, rhs) == StrLess(lhs.absolute_path, rhs.absolute_path)

(***************************************************************************)
(* flat_set<SourceFile, SourceFile::Less>: a sequence kept sorted by Less, *)
(* two elements being the same key when neither is Less than the other.    *)
(***************************************************************************)
SameKey(a, b) == ~Less(a, b) /\ ~Less(b, a)

Contains(files, f) == \E i \in 1..Len(files) : SameKey(files[i], f)

\* an emplace that puts the new element in the place of the one with its key
EmplaceReplace(files, f) ==
  IF \E i \in 1..Len(files) : ~Less(files[i], f) /\ ~Less(f, files[i])
    THEN [i \in 1..Len(files) |->
            IF ~Less(files[i], f) /\ ~Less(f, files[i]) THEN f ELSE files[i]]
    ELSE LET k == Cardinality({i \in 1..Len(files) : Less(files[i], f)})
         IN  SubSeq(files, 1, k) \o <<f>> \o SubSeq(files, k + 1, Len(files))

\* flat_set::emplace: no insertion when the key is already there
Emplace(files, f) ==
  IF Contains(files, f) THEN files
  ELSE LET k == Cardinality({i \in 1..Len(files) : Less(files[i], f)})
       IN  SubSeq(files, 1, k) \o <<f>> \o SubSeq(files, k + 1, Len(files))

\* flat_set::erase(key): the set without the key
Erase(files, f) == SelectSeq(files, LAMBDA x : ~SameKey(x, f))

(***************************************************************************)
(* MakeArguments, GetCurrentFiles.  C++ index i is TLA+ index i + 1.       *)
(***************************************************************************)
MakeArguments(argv, compiler) ==
  <<compiler>> \o [i \in 1..(Len(argv) - 1) |-> argv[i + 1]]

RECURSIVE GetCurrentFilesFrom(_, _, _, _)
GetCurrentFilesFrom(cwd, args, i, files) ==
  IF i > Len(args) THEN files
  ELSE IF args[i] \in kCompilerFlagsWithArgument
    THEN GetCurrentFilesFrom(cwd, args, i + 2, files)
    ELSE IF ~StartsWith(args[i], "-")
      THEN GetCurrentFilesFrom(cwd, args, i + 1,
                               Emplace(files, SourceFile(cwd, args[i])))
      ELSE GetCurrentFilesFrom(cwd, args, i + 1, files)

\* a scan that does not skip the token after a flag that takes an argument
RECURSIVE GetCurrentFilesNoSkipFrom(_, _, _, _)
GetCurrentFilesNoSkipFrom(cwd, args, i, files) ==
  IF i > Len(args) THEN files
  ELSE IF ~StartsWith(args[i], "-")
    THEN GetCurrentFilesNoSkipFrom(cwd, args, i + 1,
                                   Emplace(files, SourceFile(cwd, args[i])))
    ELSE GetCurrentFilesNoSkipFrom(cwd, args, i + 1, files)

GetCurrentFilesNoSkip(cwd, args) == GetCurrentFilesNoSkipFrom(cwd, args, 2, <<>>)

GetCurrentFiles(cwd, args) == GetCurrentFilesFrom(cwd, args, 2, <<>>)

(***************************************************************************)
(* CommandEntry, CommandEntries and UpdateEntries.                         *)
(***************************************************************************)
CommandEntry(directory, arguments, file) ==
  [directory |-> directory, arguments |-> arguments, file |-> file]

\* a loop that does not take the matched file out of source_files
RECURSIVE ScanEntriesNoErase(_, _, _, _)
ScanEntriesNoErase(arguments, cwd, i, st) ==
  IF i > Len(st.entries) THEN st
  ELSE LET entry == st.entries[i]
           file == SourceFile(ValueOr(entry.directory, cwd), entry.file.v)
       IN  IF entry.file.has /\ Contains(st.source_files, file)
             THEN ScanEntriesNoErase(arguments, cwd, i + 1,
                    [st EXCEPT !.entries[i].arguments = Some(arguments)])
             ELSE ScanEntriesNoErase(arguments, cwd, i + 1, st)

\* a loop that refreshes the arguments of every entry that has a file
RECURSIVE ScanEntriesRefreshAll(_, _, _, _)
ScanEntriesRefreshAll(arguments, cwd, i, st) ==
  IF i > Len(st.entries) THEN st
  ELSE LET entry == st.entries[i]
           file == SourceFile(ValueOr(entry.directory, cwd), entry.file.v)
       IN  IF entry.file.has
             THEN ScanEntriesRefreshAll(arguments, cwd, i + 1,
                    [entries |-> [st.entries EXCEPT ![i].arguments = Some(arguments)],
                     source_files |-> Erase(st.source_files, file)])
             ELSE ScanEntriesRefreshAll(arguments, cwd, i + 1, st)

\* a loop that an entry without a file ends
RECURSIVE ScanEntriesStopAtNoFile(_, _, _, _)
ScanEntriesStopAtNoFile(arguments, cwd, i, st) ==
  IF i > Len(st.entries) \/ ~st.entries[i].file.has THEN st
  ELSE LET entry == st.entries[i]
           file == SourceFile(ValueOr(entry.directory, cwd), entry.file.v)
       IN  IF Contains(st.source_files, file)
             THEN ScanEntriesStopAtNoFile(arguments, cwd, i + 1,
                    [entries |-> [st.entries EXCEPT ![i].arguments = Some(arguments)],
                     source_files |-> Erase(st.source_files, file)])
             ELSE ScanEntriesStopAtNoFile(arguments, cwd, i + 1, st)

\* the loop over the existing entries (lines 177-189); st = [entries, source_files]
RECURSIVE ScanEntries(_, _, _, _)
ScanEntries(arguments, cwd, i, st) ==
  IF i > Len(st.entries) THEN st
  ELSE LET entry == st.entries[i]
           maybe_file_path == entry.file
       IN  IF ~maybe_file_path.has
             THEN ScanEntries(arguments, cwd, i + 1, st)
             ELSE LET base_directory == ValueOr(entry.directory, cwd)
                      file == SourceFile(base_directory, maybe_file_path.v)
                  IN  IF Contains(st.source_files, file)
                        THEN ScanEntries(arguments, cwd, i + 1,
                               [entries |-> [st.entries EXCEPT
                                               ![i].arguments = Some(arguments)],
                                source_files |-> Erase(st.source_files, file)])
                        ELSE ScanEntries(arguments, cwd, i + 1, st)

\* an append loop that stores the joined absolute path as the file
AppendEntriesAbsolute(arguments, cwd, st) ==
  st.entries \o [k \in 1..Len(st.source_files) |->
                  CommandEntry(Some(cwd), Some(arguments),
                               Some(st.source_files[k].absolute_path))]

\* an append loop over all the files of the command line, matched or not
AppendEntriesAll(arguments, cwd, st) ==
  LET all == GetCurrentFiles(cwd, arguments)
  IN  st.entries \o [k \in 1..Len(all) |->
                      CommandEntry(Some(cwd), Some(arguments),
                                   Some(all[k].relative_path))]

\* an append loop that puts the new entries before the existing ones
AppendEntriesFront(arguments, cwd, st) ==
  [k \in 1..Len(st.source_files) |->
     CommandEntry(Some(cwd), Some(arguments),
                  Some(st.source_files[k].relative_path))] \o st.entries

\* an append loop that stops after the first file left
AppendEntriesFirstOnly(arguments, cwd, st) ==
  st.entries \o [k \in 1..(IF st.source_files = <<>> THEN 0 ELSE 1) |->
                  CommandEntry(Some(cwd), Some(arguments),
                               Some(st.source_files[k].relative_path))]

\* the loop over the files left (lines 190-199)
AppendEntries(arguments, cwd, st) ==
  st.entries \o [k \in 1..Len(st.source_files) |->
                  CommandEntry(Some(cwd), Some(arguments),
                               Some(st.source_files[k].relative_path))]

\* UpdateEntries once GetWorkspaceDirectory has returned cwd
UpdateEntries(arguments, cwd, entries) ==
  AppendEntries(arguments, cwd,
    ScanEntries(arguments, cwd, 1,
                [entries |-> entries,
                 source_files |-> GetCurrentFiles(cwd, arguments)]))

(***************************************************************************)
(* The text of the database.  The file holds a sequence of tokens: the     *)
(* brackets of the JSON array, one token per encoded object, the trailing  *)
(* newline, and whatever else a file may hold (junk, the zeros of a hole). *)
(***************************************************************************)
NoEntry == CommandEntry(None, None, None)
Tok(t) == [t |-> t, e |-> NoEntry]
EntryTok(e) == [t |-> "object", e |-> e]

\* json::Stringify(entries, {.pretty = true}) + "\n"
Stringify(entries) ==
  <<Tok("[")>> \o [i \in 1..Len(entries) |-> EntryTok(entries[i])]
              \o <<Tok("]"), Tok("nl")>>

\* json::Parse<CommandEntries>: an array of objects, white space after it
ParseOk(json) ==
  /\ Len(json) >= 2
  /\ json[1].t = "["
  /\ \E k \in 2..Len(json) :
        /\ json[k].t = "]"
        /\ \A i \in 2..(k - 1) : json[i].t = "object"
        /\ \A i \in (k + 1)..Len(json) : json[i].t = "nl"

ParsedEntries(json) ==
  LET k == CHOOSE k \in 2..Len(json) : json[k].t = "]"
  IN  [i \in 1..(k - 2) |-> json[i + 1].e]

\* a decoder that keeps the objects it finds in a text it cannot decode
SelectObjects(json) ==
  LET RECURSIVE Sel(_)
      Sel(k) == IF k > Len(json) THEN <<>>
                ELSE IF json[k].t = "object" THEN <<json[k].e>> \o Sel(k + 1)
                ELSE Sel(k + 1)
  IN  Sel(1)

DecodeOrSalvage(json) ==
  IF ParseOk(json) THEN ParsedEntries(json) ELSE SelectObjects(json)

\* the tail of ParseCommandFile (lines 143-148): decode, or fall back to empty
DecodeOrEmpty(json) == IF ParseOk(json) THEN ParsedEntries(json) ELSE <<>>

(***************************************************************************)
(* The invocations.  One invocation is one process: its argv, the value of *)
(* COMP_DB_HOOK_WORKSPACE_DIR and of COMP_DB_HOOK_COMPILER (std::optional), *)
(* and the directory getcwd reports.                                       *)
(***************************************************************************)
Procs == 1..NProcs

s_hook == <<"h">>
s_a == <<"a">>
s_b == <<"b">>
s_x == <<"x">>
s_w == <<"/", "w">>
s_ws == <<"/", "w", "/">>
s_wa == <<"/", "w", "/", "a">>
s_o == <<"-", "o">>
s_c == <<"-", "c">>
s_gpp == <<"g", "+", "+">>

Invocation(argv, ws, cc, cwd) ==
  [argv |-> argv, env_ws |-> ws, env_cc |-> cc, getcwd |-> cwd]

\* the command lines the concurrent invocations are started with
InvocationList ==
  << Invocation(<<s_hook, s_c, s_a>>, Some(s_w), None, s_w),
     Invocation(<<s_hook, s_o, s_x, s_b>>, Some(s_ws), Some(s_gpp), s_w),
     Invocation(<<s_hook, s_x, s_wa>>, None, None, s_ws) >>

Invocations == {InvocationList[k] : k \in 1..Len(InvocationList)}

\* GetCompilerName
GetCompilerName(i) == ValueOr(i.env_cc, kDefaultCompilerName)

\* GetWorkspaceDirectory when getcwd succeeds
GetWorkspaceDirectory(i) == ValueOr(i.env_ws, i.getcwd)

\* GetCommandFilePath
GetCommandFilePath(i) == JoinPath(GetWorkspaceDirectory(i), kCommandFileName)

\* what the database file may hold when the first invocation starts
e_a == CommandEntry(Some(s_w), Some(<<s_gpp, s_a>>), Some(s_a))
e_nofile == CommandEntry(Some(s_w), Some(<<s_gpp>>), None)

InitialFiles ==
  { None, Some(Stringify(<<e_nofile, e_a>>)), Some(<<Tok("junk")>>) }

(***************************************************************************)
(* The inputs of the merge: every short command line over a few tokens on  *)
(* a few databases, and a few command lines on every short database.       *)
(***************************************************************************)
s_MF == <<"-", "M", "F">>
s_dep == <<"d", "e", "p", ".", "d">>
s_src == <<"s", "r", "c", "/", "x", ".", "c", "c">>

ArgTokens == {s_o, s_c, s_a, s_wa, s_b}

ArgVectors ==
  UNION {{<<s_hook>> \o t : t \in [1..n -> ArgTokens]} : n \in 0..MaxArgs}

FewArgVectors ==
  { <<s_hook, s_MF, s_dep, s_src>>, <<s_hook, s_c, s_a>>, <<s_hook, s_b, s_wa>>,
    <<s_hook, s_a, s_o, s_x, s_wa>>, <<s_hook>> }

e_abs == CommandEntry(None, Some(<<s_gpp, s_wa>>), Some(s_wa))
e_b == CommandEntry(Some(s_ws), None, Some(s_b))

\* entries whose directory is empty, relative, or another one than the
\* workspace directory
s_v == <<"/", "v">>
e_nodir == CommandEntry(Some(<<>>), Some(<<s_gpp, s_a>>), Some(s_a))
e_reldir == CommandEntry(Some(<<"w">>), None, Some(s_a))
e_v == CommandEntry(Some(s_v), None, Some(s_wa))

EntryPool == {e_a, e_nofile, e_abs, e_b, e_nodir, e_reldir, e_v}

Databases ==
  UNION {{Some(Stringify(d)) : d \in [1..n -> EntryPool]} : n \in 0..MaxEntries}

\* COMP_DB_HOOK_WORKSPACE_DIR, COMP_DB_HOOK_COMPILER, getcwd
Environments ==
  { <<Some(s_ws), Some(s_gpp), s_w>>, <<None, None, s_w>> }

\* files that do not decode: an empty one, one cut short, garbage
CorruptFiles ==
  { Some(<<>>), Some(<<Tok("["), EntryTok(e_a)>>),
    Some(<<Tok("junk"), EntryTok(e_b), Tok("]")>>) }

MergeInputs ==
  (ArgVectors \X InitialFiles) \cup (FewArgVectors \X Databases)
     \cup (FewArgVectors \X CorruptFiles)

\* the database files the invocations can name
Paths == {GetCommandFilePath(i) : i \in Invocations}
           \cup {JoinPath(ValueOr(e[1], e[3]), kCommandFileName) : e \in Environments}

\* the read buffer of ParseCommandFile, in tokens (4096 bytes in the code)
kBufferSize == 4

(***************************************************************************)
(* State.                                                                  *)
(***************************************************************************)
VARIABLES
  fs,        \* path -> std::optional<content>: the files, None when absent
  lock,      \* path -> the process holding the exclusive lock, 0 when free
  pc,        \* where each process is
  inv,       \* the invocation of each process
  offset,    \* the file offset of each process's descriptor
  json,      \* ParseCommandFile's json, then RewriteFile's json
  entries,   \* UpdateCommandFile's entries
  written,   \* RewriteFile's written
  status,    \* the absl::Status UpdateCommandFile returns
  exec,      \* what execvp was called with, None before
  order,     \* history: the processes in the order they acquired the lock
  parsed,    \* history: the entries ParseCommandFile returned to each process
  fs0        \* history: the files as they were at the start

vars == <<fs, lock, pc, inv, offset, json, entries, written, status, exec,
          order, parsed, fs0>>

Min(a, b) == IF a < b THEN a ELSE b
Max(a, b) == IF a < b THEN b ELSE a

File(p) == GetCommandFilePath(inv[p])

\* write(2) of data at offset off of a file holding content: a hole reads as zeros
WriteAt(content, off, data) ==
  [i \in 1..Max(Len(content), off + Len(data)) |->
     IF i <= off
       THEN IF i <= Len(content) THEN content[i] ELSE Tok("nul")
       ELSE IF i <= off + Len(data) THEN data[i - off] ELSE content[i]]

Init ==
  /\ fs0 \in [Paths -> InitialFiles]
  /\ fs = fs0
  /\ lock = [f \in Paths |-> 0]
  /\ pc = [p \in Procs |-> "main"]
  /\ \E k \in [Procs -> 1..Len(InvocationList)] :
       \* processes are interchangeable: one numbering of each choice
       /\ \A p, q \in Procs : p < q => k[p] <= k[q]
       /\ inv = [p \in Procs |-> InvocationList[k[p]]]
  /\ offset = [p \in Procs |-> 0]
  /\ json = [p \in Procs |-> <<>>]
  /\ entries = [p \in Procs |-> <<>>]
  /\ written = [p \in Procs |-> 0]
  /\ status = [p \in Procs |-> "ok"]
  /\ exec = [p \in Procs |-> None]
  /\ order = <<>>
  /\ parsed = [p \in Procs |-> <<>>]

(***************************************************************************)
(* UpdateCommandFile, one action per system call.                          *)
(***************************************************************************)
\* an error that main does not check: the process goes on to execvp
FailUnchecked(p, what) ==
  /\ status' = [status EXCEPT ![p] = what]
  /\ lock' = [f \in Paths |-> IF lock[f] = p THEN 0 ELSE lock[f]]
  /\ pc' = [pc EXCEPT ![p] = "execvp"]

\* an error return that leaves the lock held
FailKeepLock(p, what) ==
  /\ status' = [status EXCEPT ![p] = what]
  /\ lock' = lock
  /\ pc' = [pc EXCEPT ![p] = "aborted"]

\* the return of UpdateCommandFile with an error: the destructors of lock
\* and fd run, CHECK_OK aborts
Fail(p, what) ==
  /\ status' = [status EXCEPT ![p] = what]
  /\ lock' = [f \in Paths |-> IF lock[f] = p THEN 0 ELSE lock[f]]
  /\ pc' = [pc EXCEPT ![p] = "aborted"]

\* an open with O_TRUNC
OpenCommandFileTrunc(p) ==
  /\ pc[p] = "main"
  /\ fs' = [fs EXCEPT ![File(p)] = Some(<<>>)]
  /\ offset' = [offset EXCEPT ![p] = 0]
  /\ pc' = [pc EXCEPT ![p] = "acquire"]
  /\ UNCHANGED <<lock, inv, json, entries, written, status, exec, order, parsed, fs0>>

\* OpenCommandFile: open(O_CREAT | O_RDWR) creates an empty file when absent
OpenCommandFile(p) ==
  /\ pc[p] = "main"
  /\ fs' = [fs EXCEPT ![File(p)] = IF @.has THEN @ ELSE Some(<<>>)]
  /\ offset' = [offset EXCEPT ![p] = 0]
  /\ pc' = [pc EXCEPT ![p] = "acquire"]
  /\ UNCHANGED <<lock, inv, json, entries, written, status, exec, order, parsed, fs0>>

\* a lock that is granted whoever holds it
AcquireNoWait(p) ==
  /\ pc[p] = "acquire"
  /\ lock' = [lock EXCEPT ![File(p)] = p]
  /\ order' = Append(order, p)
  /\ pc' = [pc EXCEPT ![p] = "read"]
  /\ UNCHANGED <<fs, inv, offset, json, entries, written, status, exec, parsed, fs0>>

\* ExclusiveFileLock::Acquire: blocks while another process holds the lock
Acquire(p) ==
  /\ pc[p] = "acquire"
  /\ lock[File(p)] = 0
  /\ lock' = [lock EXCEPT ![File(p)] = p]
  /\ order' = Append(order, p)
  /\ pc' = [pc EXCEPT ![p] = "read"]
  /\ UNCHANGED <<fs, inv, offset, json, entries, written, status, exec, parsed, fs0>>

\* one iteration of the do-while of ParseCommandFile, and the decoding after
\* the last one; a read of a regular file returns all it can
Read(p) ==
  /\ pc[p] = "read"
  /\ LET content == fs[File(p)].v
         result == Min(kBufferSize, Max(0, Len(content) - offset[p]))
         text == json[p] \o SubSeq(content, offset[p] + 1, offset[p] + result)
     IN  /\ offset' = [offset EXCEPT ![p] = @ + result]
         /\ json' = [json EXCEPT ![p] = text]
         /\ IF ~(result < kBufferSize)
              THEN UNCHANGED <<pc, entries, parsed>>
              ELSE /\ entries' = [entries EXCEPT ![p] = DecodeOrEmpty(text)]
                   /\ parsed' = [parsed EXCEPT ![p] = DecodeOrEmpty(text)]
                   /\ pc' = [pc EXCEPT ![p] = "update"]
  /\ UNCHANGED <<fs, lock, inv, written, status, exec, order, fs0>>

\* MakeArguments and UpdateEntries
Update(p) ==
  /\ pc[p] = "update"
  /\ LET arguments == MakeArguments(inv[p].argv, GetCompilerName(inv[p]))
         cwd == GetWorkspaceDirectory(inv[p])
     IN  entries' = [entries EXCEPT ![p] = UpdateEntries(arguments, cwd, @)]
  /\ pc' = [pc EXCEPT ![p] = "ftruncate"]
  /\ UNCHANGED <<fs, lock, inv, offset, json, written, status, exec, order, parsed, fs0>>

\* RewriteFile: ftruncate(fd, 0)
Ftruncate(p) ==
  /\ pc[p] = "ftruncate"
  /\ fs' = [fs EXCEPT ![File(p)] = Some(<<>>)]
  /\ pc' = [pc EXCEPT ![p] = "lseek"]
  /\ UNCHANGED <<lock, inv, offset, json, entries, written, status, exec, order, parsed, fs0>>

\* a RewriteFile that leaves the offset where the reads left it
LseekNoReset(p) ==
  /\ pc[p] = "lseek"
  /\ json' = [json EXCEPT ![p] = Stringify(entries[p])]
  /\ written' = [written EXCEPT ![p] = 0]
  /\ pc' = [pc EXCEPT ![p] = "write"]
  /\ UNCHANGED <<fs, lock, inv, offset, entries, status, exec, order, parsed, fs0>>

\* RewriteFile: lseek(fd, 0, SEEK_SET), then the serialization
Lseek(p) ==
  /\ pc[p] = "lseek"
  /\ offset' = [offset EXCEPT ![p] = 0]
  /\ json' = [json EXCEPT ![p] = Stringify(entries[p])]
  /\ written' = [written EXCEPT ![p] = 0]
  /\ pc' = [pc EXCEPT ![p] = "write"]
  /\ UNCHANGED <<fs, lock, inv, entries, status, exec, order, parsed, fs0>>

\* a write loop that passes json.data() to every write, not json.data() + written
WriteFromStart(p) ==
  /\ pc[p] = "write"
  /\ written[p] < Len(json[p])
  /\ \E result \in 1..(Len(json[p]) - written[p]) :
       /\ fs' = [fs EXCEPT ![File(p)] =
                   Some(WriteAt(@.v, offset[p], SubSeq(json[p], 1, result)))]
       /\ offset' = [offset EXCEPT ![p] = @ + result]
       /\ written' = [written EXCEPT ![p] = @ + result]
       /\ pc' = [pc EXCEPT ![p] =
                   IF written[p] + result < Len(json[p]) THEN "write" ELSE "return"]
  /\ UNCHANGED <<lock, inv, json, entries, status, exec, order, parsed, fs0>>

\* RewriteFile: one write, of any number of the bytes left, and the loop test
Write(p) ==
  /\ pc[p] = "write"
  /\ written[p] < Len(json[p])
  /\ \E result \in 1..(Len(json[p]) - written[p]) :
       /\ fs' = [fs EXCEPT ![File(p)] =
                   Some(WriteAt(@.v, offset[p],
                                SubSeq(json[p], written[p] + 1, written[p] + result)))]
       /\ offset' = [offset EXCEPT ![p] = @ + result]
       /\ written' = [written EXCEPT ![p] = @ + result]
       /\ pc' = [pc EXCEPT ![p] =
                   IF written[p] + result < Len(json[p]) THEN "write" ELSE "return"]
  /\ UNCHANGED <<lock, inv, json, entries, status, exec, order, parsed, fs0>>

\* the return of UpdateCommandFile with OkStatus: lock and fd are destroyed
Return(p) ==
  /\ pc[p] = "return"
  /\ lock' = [f \in Paths |-> IF lock[f] = p THEN 0 ELSE lock[f]]
  /\ pc' = [pc EXCEPT ![p] = "execvp"]
  /\ UNCHANGED <<fs, inv, offset, json, entries, written, status, exec, order, parsed, fs0>>

\* main: execvp(GetCompilerName(), argv) replaces the process
Execvp(p) ==
  /\ pc[p] = "execvp"
  /\ exec' = [exec EXCEPT ![p] =
                Some([file |-> GetCompilerName(inv[p]), argv |-> inv[p].argv])]
  /\ pc' = [pc EXCEPT ![p] = "compiler"]
  /\ UNCHANGED <<fs, lock, inv, offset, json, entries, written, status, order, parsed, fs0>>

Next ==
  \E p \in Procs :
    \/ OpenCommandFile(p)
    \/ Acquire(p)
    \/ Read(p)
    \/ Update(p)
    \/ Ftruncate(p)
    \/ Lseek(p)
    \/ Write(p)
    \/ Return(p)
    \/ Execvp(p)

\* the invocations run concurrently and every system call succeeds
Spec == Init /\ [][Next]_vars

(***************************************************************************)
(* The system calls that fail.  Each error returns from UpdateCommandFile  *)
(* at once (DEFINE_..._OR_RETURN, RETURN_IF_ERROR) and CHECK_OK aborts.    *)
(***************************************************************************)
\* GetCommandFilePath (getcwd, when the environment names no directory) or open
OpenFails(p) ==
  /\ pc[p] = "main"
  /\ \E what \in {"open"} \cup (IF inv[p].env_ws.has THEN {} ELSE {"getcwd"}) :
       Fail(p, what)
  /\ UNCHANGED <<fs, inv, offset, json, entries, written, exec, order, parsed, fs0>>

AcquireFails(p) ==
  /\ pc[p] = "acquire"
  /\ Fail(p, "flock")
  /\ UNCHANGED <<fs, inv, offset, json, entries, written, exec, order, parsed, fs0>>

ReadFails(p) ==
  /\ pc[p] = "read"
  /\ Fail(p, "read")
  /\ UNCHANGED <<fs, inv, offset, json, entries, written, exec, order, parsed, fs0>>

\* GetWorkspaceDirectory in UpdateEntries: getcwd fails
UpdateFails(p) ==
  /\ pc[p] = "update"
  /\ ~inv[p].env_ws.has
  /\ Fail(p, "getcwd")
  /\ UNCHANGED <<fs, inv, offset, json, entries, written, exec, order, parsed, fs0>>

FtruncateFails(p) ==
  /\ pc[p] = "ftruncate"
  /\ Fail(p, "ftruncate")
  /\ UNCHANGED <<fs, inv, offset, json, entries, written, exec, order, parsed, fs0>>

LseekFails(p) ==
  /\ pc[p] = "lseek"
  /\ Fail(p, "lseek")
  /\ UNCHANGED <<fs, inv, offset, json, entries, written, exec, order, parsed, fs0>>

WriteFails(p) ==
  /\ pc[p] = "write"
  /\ Fail(p, "write")
  /\ UNCHANGED <<fs, inv, offset, json, entries, written, exec, order, parsed, fs0>>

\* execvp returns: main logs the error and returns 1
ExecvpFails(p) ==
  /\ pc[p] = "execvp"
  /\ pc' = [pc EXCEPT ![p] = "exit1"]
  /\ UNCHANGED <<fs, lock, inv, offset, json, entries, written, status, exec,
                 order, parsed, fs0>>

NextFault ==
  \E p \in Procs :
    \/ OpenCommandFile(p)
    \/ Acquire(p)
    \/ Read(p)
    \/ Update(p)
    \/ Ftruncate(p)
    \/ Lseek(p)
    \/ Write(p)
    \/ Return(p)
    \/ Execvp(p)
    \/ OpenFails(p)
    \/ AcquireFails(p)
    \/ ReadFails(p)
    \/ UpdateFails(p)
    \/ FtruncateFails(p)
    \/ LseekFails(p)
    \/ WriteFails(p)
    \/ ExecvpFails(p)

\* the invocations run concurrently and any system call may fail
SpecFault == Init /\ [][NextFault]_vars

(***************************************************************************)
(* The same command line run again and again, each run after the one       *)
(* before has exec'd the compiler, on the inputs of the merge; or a few    *)
(* command lines run again and again, each run in an environment of its    *)
(* own.                                                                    *)
(***************************************************************************)
InitMerge ==
  /\ \/ \E in \in MergeInputs, env \in Environments :
          /\ inv = [p \in Procs |-> Invocation(in[1], env[1], env[2], env[3])]
          /\ fs0 = [f \in Paths |-> in[2]]
     \/ \E argv \in FewArgVectors, file \in InitialFiles,
           env \in [Procs -> Environments] :
          /\ inv = [p \in Procs |->
                      Invocation(argv, env[p][1], env[p][2], env[p][3])]
          /\ fs0 = [f \in Paths |-> file]
  /\ fs = fs0
  /\ lock = [f \in Paths |-> 0]
  /\ pc = [p \in Procs |-> "main"]
  /\ offset = [p \in Procs |-> 0]
  /\ json = [p \in Procs |-> <<>>]
  /\ entries = [p \in Procs |-> <<>>]
  /\ written = [p \in Procs |-> 0]
  /\ status = [p \in Procs |-> "ok"]
  /\ exec = [p \in Procs |-> None]
  /\ order = <<>>
  /\ parsed = [p \in Procs |-> <<>>]

Turn(p) == \A q \in Procs : q < p => pc[q] = "compiler"

NextMerge ==
  \E p \in Procs :
    \/ Turn(p) /\ OpenCommandFile(p)
    \/ Turn(p) /\ Acquire(p)
    \/ Turn(p) /\ Read(p)
    \/ Turn(p) /\ Update(p)
    \/ Turn(p) /\ Ftruncate(p)
    \/ Turn(p) /\ Lseek(p)
    \/ Turn(p) /\ Write(p)
    \/ Turn(p) /\ Return(p)
    \/ Turn(p) /\ Execvp(p)

SpecMerge == InitMerge /\ [][NextMerge]_vars

(***************************************************************************)
(* Properties.                                                             *)
(***************************************************************************)
\* between the start of ParseCommandFile and the end of RewriteFile
InCritical(p) == pc[p] \in {"read", "update", "ftruncate", "lseek", "write"}

\* UpdateCommandFile has returned OkStatus
Succeeded(p) == pc[p] \in {"execvp", "compiler", "exit1"}

AllDone == \A p \in Procs : pc[p] = "compiler"

Arguments(p) == MakeArguments(inv[p].argv, GetCompilerName(inv[p]))

Cwd(p) == GetWorkspaceDirectory(inv[p])

\* the absolute paths of the files an invocation names
FilesOf(p) ==
  LET files == GetCurrentFiles(Cwd(p), Arguments(p))
  IN  {files[k].absolute_path : k \in 1..Len(files)}

\* the absolute path of an entry, as read by an invocation in directory cwd
EntryPath(e, cwd) == JoinPath(ValueOr(e.directory, cwd), e.file.v)

IsPrefix(a, b) == Len(a) <= Len(b) /\ \A i \in 1..Len(a) : a[i] = b[i]

\* C1: at most one invocation at a time is between the start of
\* ParseCommandFile and the end of RewriteFile on one database file; an
\* invocation in that section, or one that has finished writing and has not
\* returned, holds the lock; the file is open (it exists) before the lock is
\* asked for, and nothing has been read before the lock is held.
C1_MutualExclusion ==
  /\ \A p, q \in Procs :
       (p # q /\ InCritical(p) /\ InCritical(q)) => File(p) # File(q)
  /\ \A p \in Procs :
       /\ (InCritical(p) \/ pc[p] = "return") => lock[File(p)] = p
       /\ pc[p] = "acquire" => fs[File(p)].has
       /\ pc[p] \in {"main", "acquire"} => (offset[p] = 0 /\ json[p] = <<>>)

\* one invocation is writing while another waits for the lock
C1_Witness ==
  \E p, q \in Procs :
    /\ p # q /\ File(p) = File(q)
    /\ pc[p] = "write" /\ written[p] > 0
    /\ pc[q] = "acquire"

\* an invocation that has not exec'd the compiler can take a step: it is not
\* waiting for the lock, or the lock can be granted to it
CanStep(p) ==
  /\ pc[p] # "compiler"
  /\ pc[p] = "acquire" => ENABLED Acquire(p)
  /\ pc[p] = "write" => ENABLED Write(p)

PairwiseDisjoint ==
  \A p, q \in Procs : p # q => FilesOf(p) \cap FilesOf(q) = {}

\* the decoded database holds an entry for path f with the arguments of p
HasEntryFor(db, f, p) ==
  \E i \in 1..Len(db) :
    /\ db[i].file.has
    /\ EntryPath(db[i], Cwd(p)) = f
    /\ db[i].arguments = Some(Arguments(p))

\* C2: when the concurrent invocations name pairwise disjoint files, no
\* interleaving aborts any of them or blocks them all, and once all have exec'd the
\* compiler the database decodes and holds, for every file of every
\* invocation, an entry with that invocation's arguments.
C2_NoLostEntry ==
  PairwiseDisjoint =>
    /\ \A p \in Procs : pc[p] # "aborted"
    /\ ~AllDone => \E p \in Procs : CanStep(p)
    /\ AllDone =>
         \A p \in Procs :
           /\ ParseOk(fs[File(p)].v)
           /\ \A f \in FilesOf(p) : HasEntryFor(ParsedEntries(fs[File(p)].v), f, p)

\* every invocation named a file of its own and all are done, after one had to
\* wait for the lock
C2_Witness ==
  /\ PairwiseDisjoint
  /\ AllDone
  /\ \A p \in Procs : FilesOf(p) # {}
  /\ \A p \in Procs : Len(entries[p]) >= 1
  /\ Len(entries[order[Len(order)]]) >= NProcs

\* the processes that locked file f, in the order they acquired the lock
HoldersOf(f) == SelectSeq(order, LAMBDA p : File(p) = f)

\* the merges of the first n holders applied one after another to the
\* database as it was at the start
RECURSIVE Linearized(_, _, _)
Linearized(f, ord, n) ==
  IF n = 0
    THEN DecodeOrEmpty(ValueOr(fs0[f], <<>>))
    ELSE UpdateEntries(Arguments(ord[n]), Cwd(ord[n]), Linearized(f, ord, n - 1))

\* C3: the entries the Nth holder of the lock parses are the entries the
\* (N-1)th holder wrote (for the first holder, the database as it was), they
\* are the merges of all earlier holders applied in lock-acquisition order,
\* and once all are done the file decodes to the merges of all in that order.
C3_Linearized ==
  \A f \in Paths :
    LET ord == HoldersOf(f)
    IN  /\ \A n \in 1..Len(ord) :
             (pc[ord[n]] \notin {"main", "acquire", "read"}) =>
               /\ parsed[ord[n]] = Linearized(f, ord, n - 1)
               /\ n > 1 => parsed[ord[n]] = entries[ord[n - 1]]
        /\ (AllDone /\ Len(ord) > 0) =>
             /\ ParseOk(fs[f].v)
             /\ ParsedEntries(fs[f].v) = Linearized(f, ord, Len(ord))

\* the last holder has parsed a database that an earlier holder had extended
C3_Witness ==
  /\ Len(order) = NProcs
  /\ AllDone
  /\ Len(parsed[order[NProcs]]) > Len(parsed[order[1]])
  /\ entries[order[NProcs]] # parsed[order[NProcs]]

AtRest(f) == lock[f] = 0

\* the database was absent or decodable when the first invocation started
InitiallySound(f) == fs0[f].has => ParseOk(fs0[f].v)

\* C4 as claimed: whenever no invocation holds the lock the file decodes to
\* a valid CommandEntries sequence.
C4_AlwaysDecodable ==
  \A f \in Paths :
    (AtRest(f) /\ InitiallySound(f) /\ fs[f].has) => ParseOk(fs[f].v)

\* C4: whenever no invocation holds the lock, a file that was absent or
\* decodable at the start is decodable, or empty (created by open and not yet
\* rewritten by anyone), or a proper prefix, possibly empty, of the text that
\* an invocation whose lseek or write failed was about to write.
C4_DecodableOrCut ==
  \A f \in Paths :
    (AtRest(f) /\ InitiallySound(f) /\ fs[f].has) =>
      \/ ParseOk(fs[f].v)
      \/ /\ fs[f].v = <<>>
         /\ ~fs0[f].has
         /\ \A p \in Procs : File(p) = f => ~Succeeded(p)
      \/ \E p \in Procs :
           /\ File(p) = f
           /\ pc[p] = "aborted"
           /\ status[p] \in {"lseek", "write"}
           /\ IsPrefix(fs[f].v, Stringify(entries[p]))
           /\ fs[f].v # Stringify(entries[p])

\* an invocation has rewritten the file and released the lock, and later one
\* failed in the middle of its write
C4_Witness ==
  \E p, q \in Procs :
    /\ Succeeded(p)
    /\ pc[q] = "aborted" /\ status[q] = "write" /\ written[q] > 0
    /\ AtRest(File(q)) /\ InitiallySound(File(q))
    /\ ~ParseOk(fs[File(q)].v)

\* C10: execvp is called only by an invocation whose UpdateCommandFile
\* returned OkStatus: its write is complete and it no longer holds the lock;
\* an invocation with an error has aborted and has not called execvp.
C10_ExecOnlyAfterUpdate ==
  \A p \in Procs :
    /\ Succeeded(p) =>
         /\ status[p] = "ok"
         /\ json[p] = Stringify(entries[p])
         /\ written[p] = Len(json[p])
         /\ lock[File(p)] # p
    /\ exec[p].has => pc[p] = "compiler"
    /\ status[p] # "ok" => (pc[p] = "aborted" /\ ~exec[p].has)

\* one invocation has exec'd the compiler and another has aborted on an error
C10_Witness ==
  \E p, q \in Procs :
    /\ pc[p] = "compiler" /\ exec[p].has
    /\ pc[q] = "aborted" /\ status[q] = "write"

\* UpdateEntries has just returned in p: parsed[p] is what it was given,
\* entries[p] what it left
Merged(p) == pc[p] = "ftruncate"

\* the entries of db whose absolute path, read in directory cwd, is f
Matches(db, cwd, f) ==
  {i \in 1..Len(db) : db[i].file.has /\ EntryPath(db[i], cwd) = f}

SetMin(S) == CHOOSE i \in S : \A j \in S : i <= j

\* C5: when the same command line is run again in the same directory on the
\* database the run before left, the entry count is the same after the second
\* run as after the first, and every entry of a file the command line names
\* has the same arguments, directory and file as after the first run.
C5_Idempotent ==
  \A p \in Procs :
    (p > 1 /\ Merged(p) /\ inv[p] = inv[p - 1]) =>
      /\ parsed[p] = entries[p - 1]
      /\ Len(entries[p]) = Len(entries[p - 1])
      /\ \A f \in FilesOf(p) :
           /\ Matches(entries[p], Cwd(p), f) = Matches(entries[p - 1], Cwd(p), f)
           /\ \A i \in Matches(entries[p - 1], Cwd(p), f) :
                entries[p][i] = entries[p - 1][i]

\* the second run of a command line whose first run had both refreshed an
\* entry and appended one
C5_Witness ==
  /\ Merged(2) /\ inv[2] = inv[1]
  /\ Len(entries[1]) > Len(parsed[1])
  /\ \E i \in 1..Len(parsed[1]) : entries[1][i] # parsed[1][i]
  /\ entries[2] = entries[1]

\* C6: UpdateEntries keeps every entry at its place, with its directory and
\* its file; an entry without a file, or whose absolute path is not a file of
\* the command line, is left as it was.
C6_Frame ==
  \A p \in Procs :
    Merged(p) =>
      /\ Len(entries[p]) >= Len(parsed[p])
      /\ \A i \in 1..Len(parsed[p]) :
           /\ entries[p][i].directory = parsed[p][i].directory
           /\ entries[p][i].file = parsed[p][i].file
           /\ (~parsed[p][i].file.has
                 \/ EntryPath(parsed[p][i], Cwd(p)) \notin FilesOf(p))
                => entries[p][i] = parsed[p][i]

\* a merge that refreshed one entry and left another one, which has a file,
\* as it was, the command line having other arguments than both
C6_Witness ==
  \E p \in Procs :
    /\ Merged(p)
    /\ \E i, j \in 1..Len(parsed[p]) :
         /\ entries[p][i].arguments # parsed[p][i].arguments
         /\ parsed[p][j].file.has
         /\ parsed[p][j].arguments # Some(Arguments(p))
         /\ entries[p][j] = parsed[p][j]

\* C7: for every file of the command line that some existing entry matches,
\* the first such entry gets the arguments of the invocation, every later
\* entry of the same absolute path is left as it was, and no entry is appended
\* for the file.
C7_FirstMatchOnly ==
  \A p \in Procs :
    Merged(p) =>
      \A f \in FilesOf(p) :
        LET old == Matches(parsed[p], Cwd(p), f)
        IN  old # {} =>
              /\ entries[p][SetMin(old)].arguments = Some(Arguments(p))
              /\ \A i \in old \ {SetMin(old)} : entries[p][i] = parsed[p][i]
              /\ Matches(entries[p], Cwd(p), f) = old

\* a merge on a database with two entries of one absolute path, the second
\* of which has other arguments than the command line
C7_Witness ==
  \E p \in Procs :
    /\ Merged(p)
    /\ \E f \in FilesOf(p) :
         LET old == Matches(parsed[p], Cwd(p), f)
         IN  /\ Cardinality(old) = 2
             /\ \E i \in old : /\ i # SetMin(old)
                               /\ parsed[p][i].arguments # Some(Arguments(p))
                               /\ parsed[p][SetMin(old)].arguments # Some(Arguments(p))

\* the tokens of the command line after argv[0]
ArgvTokens(p) == {inv[p].argv[k] : k \in 2..Len(inv[p].argv)}

\* C8: every entry UpdateEntries appends has as arguments the compiler name
\* followed by argv[1..N], as directory the workspace directory of the
\* invocation, and as file a token of the command line as it was given.
C8_AppendedEntry ==
  \A p \in Procs :
    Merged(p) =>
      \A i \in (Len(parsed[p]) + 1)..Len(entries[p]) :
        LET e == entries[p][i]
        IN  /\ e.arguments.has
            /\ Len(e.arguments.v) = Len(inv[p].argv)
            /\ e.arguments.v[1] = ValueOr(inv[p].env_cc, kDefaultCompilerName)
            /\ \A k \in 2..Len(inv[p].argv) : e.arguments.v[k] = inv[p].argv[k]
            /\ e.directory = Some(ValueOr(inv[p].env_ws, inv[p].getcwd))
            /\ e.file.has
            /\ e.file.v \in ArgvTokens(p)
            /\ ~StartsWith(e.file.v, "-")

\* an entry was appended for a relative file: its file is not its absolute path
C8_Witness ==
  \E p \in Procs :
    /\ Merged(p)
    /\ inv[p].env_cc.has
    /\ \E i \in (Len(parsed[p]) + 1)..Len(entries[p]) :
         /\ ~StartsWith(entries[p][i].file.v, "/")
         /\ EntryPath(entries[p][i], Cwd(p)) # entries[p][i].file.v

\* token i of args is the argument of a flag that takes one: the token before
\* it is such a flag and is not itself the argument of one
RECURSIVE Consumed(_, _)
Consumed(args, i) ==
  /\ i > 2
  /\ args[i - 1] \in kCompilerFlagsWithArgument
  /\ ~Consumed(args, i - 1)

\* C9: the files GetCurrentFiles returns are the tokens after argv[0] that do
\* not start with '-' and are not the argument of one of -MF, -include,
\* -iquote, -isystem, -o, -target, each joined to the workspace directory;
\* for [clang++, -MF, dep.d, src/x.cc] the only file is src/x.cc; after the
\* merge each of these files has an entry and no entry was appended for
\* anything else.
C9_CurrentFiles ==
  \A p \in Procs :
    Merged(p) =>
    LET args == Arguments(p)
        files == GetCurrentFiles(Cwd(p), args)
        picked == {i \in 2..Len(args) :
                     ~StartsWith(args[i], "-") /\ ~Consumed(args, i)}
    IN  /\ {files[k].absolute_path : k \in 1..Len(files)}
             = {JoinPath(Cwd(p), args[i]) : i \in picked}
        /\ \A k \in 1..Len(files) :
             \E i \in picked : /\ files[k].relative_path = args[i]
                               /\ files[k].absolute_path = JoinPath(Cwd(p), args[i])
        /\ args = <<kDefaultCompilerName, s_MF, s_dep, s_src>> =>
             {files[k].relative_path : k \in 1..Len(files)} = {s_src}
        /\ \A i \in picked :
             Matches(entries[p], Cwd(p), JoinPath(Cwd(p), args[i])) # {}
        /\ \A k \in (Len(parsed[p]) + 1)..Len(entries[p]) :
             \E i \in picked : entries[p][k].file = Some(args[i])

\* the merge has run on [clang++, -MF, dep.d, src/x.cc] and appended one
\* entry, for src/x.cc
C9_Witness ==
  \E p \in Procs :
    /\ Merged(p)
    /\ Arguments(p) = <<kDefaultCompilerName, s_MF, s_dep, s_src>>
    /\ Len(entries[p]) = Len(parsed[p]) + 1
    /\ entries[p][Len(entries[p])].file = Some(s_src)

\* C11: when an invocation has exec'd the compiler, the vector handed to exec
\* has the resolved compiler name as argument zero and arguments 1..N of the
\* invocation unchanged after it: it is the arguments vector recorded in the
\* database entries.
C11_ExecArguments ==
  \A p \in Procs :
    exec[p].has =>
      /\ exec[p].v.file = GetCompilerName(inv[p])
      /\ exec[p].v.argv = Arguments(p)

(***************************************************************************)
(* Reads that return less than was asked for while data remains, which     *)
(* read(2) allows.                                                         *)
(***************************************************************************)
\* one iteration of the do-while of ParseCommandFile in which read returns
\* fewer bytes than the file still holds and fewer than kBufferSize: the
\* condition !(result < kBufferSize) ends the loop and the text is decoded
ReadShort(p) ==
  /\ pc[p] = "read"
  /\ LET content == fs[File(p)].v
         available == Min(kBufferSize, Max(0, Len(content) - offset[p]))
     IN  \E result \in 1..(available - 1) :
           LET text == json[p] \o SubSeq(content, offset[p] + 1, offset[p] + result)
           IN  /\ offset' = [offset EXCEPT ![p] = @ + result]
               /\ json' = [json EXCEPT ![p] = text]
               /\ entries' = [entries EXCEPT ![p] = DecodeOrEmpty(text)]
               /\ parsed' = [parsed EXCEPT ![p] = DecodeOrEmpty(text)]
               /\ pc' = [pc EXCEPT ![p] = "update"]
  /\ UNCHANGED <<fs, lock, inv, written, status, exec, order, fs0>>

NextShortRead ==
  \/ Next
  \/ \E p \in Procs : ReadShort(p)

\* the invocations run concurrently, every system call succeeds and a read
\* may return less than is there
SpecShortRead == Init /\ [][NextShortRead]_vars

\* C12: for every file length and every sequence of read results, of 1 to
\* kBufferSize bytes each while data remains, the text ParseCommandFile hands
\* to the decoder is the whole content of the file.
C12_ReadsWholeFile ==
  \A p \in Procs :
    pc[p] = "update" =>
      /\ json[p] = fs[File(p)].v
      /\ parsed[p] = DecodeOrEmpty(fs[File(p)].v)

\* the file does not decode: it is absent (open creates it empty), empty, cut
\* short or garbage
Undecodable(content) == ~content.has \/ ~ParseOk(content.v)

\* es holds one entry per file invocation p names, each with p's directory
\* and arguments, and nothing else
OnlyCurrent(p, es) ==
  /\ Len(es) = Cardinality(FilesOf(p))
  /\ {EntryPath(es[k], Cwd(p)) : k \in 1..Len(es)} = FilesOf(p)
  /\ \A k \in 1..Len(es) :
       /\ es[k].file.has
       /\ es[k].directory = Some(Cwd(p))
       /\ es[k].arguments = Some(Arguments(p))

\* C13: when the database file holds content that does not decode (garbage, a
\* file cut short, an empty or just-created file), the invocation that finds
\* it does not fail, and the database after its update holds exactly the
\* entries of that invocation, one per file it names, and nothing of the old
\* content.
C13_CorruptRecovery ==
  \A p \in Procs :
    (Len(order) >= 1 /\ order[1] = p /\ Undecodable(fs0[File(p)])) =>
      /\ status[p] = "ok" /\ pc[p] # "aborted"
      /\ pc[p] \in {"update", "ftruncate"} => parsed[p] = <<>>
      /\ Merged(p) => OnlyCurrent(p, entries[p])
      /\ pc[p] = "return" =>
           /\ fs[File(p)] = Some(Stringify(entries[p]))
           /\ OnlyCurrent(p, DecodeOrEmpty(fs[File(p)].v))

\* an invocation has rewritten a file that was cut short after its first
\* object, and the new file holds the two entries of the command line
C13_Witness ==
  \E p \in Procs :
    /\ Len(order) >= 1 /\ order[1] = p
    /\ fs0[File(p)] = Some(<<Tok("["), EntryTok(e_a)>>)
    /\ pc[p] = "return"
    /\ Len(entries[p]) = 2
    /\ fs[File(p)] = Some(Stringify(entries[p]))

\* C14: an existing entry that has no file field is never matched, updated or
\* removed, and it does not stop the scan: a valid entry after it that is the
\* first one of a file of the command line still gets the arguments of the
\* invocation, and no entry is appended for that file.
C14_NoFileTolerated ==
  \A p \in Procs :
    Merged(p) =>
      \A i \in 1..Len(parsed[p]) :
        ~parsed[p][i].file.has =>
          /\ entries[p][i] = parsed[p][i]
          /\ \A j \in (i + 1)..Len(parsed[p]) :
               (/\ parsed[p][j].file.has
                /\ EntryPath(parsed[p][j], Cwd(p)) \in FilesOf(p)
                /\ j = SetMin(Matches(parsed[p], Cwd(p), EntryPath(parsed[p][j], Cwd(p)))))
               => /\ entries[p][j].arguments = Some(Arguments(p))
                  /\ Matches(entries[p], Cwd(p), EntryPath(parsed[p][j], Cwd(p)))
                       = Matches(parsed[p], Cwd(p), EntryPath(parsed[p][j], Cwd(p)))

\* a merge on a database whose first entry has no file and whose second is
\* the entry of a file of the command line, recorded with other arguments
C14_Witness ==
  \E p \in Procs :
    /\ Merged(p)
    /\ Len(parsed[p]) = 2
    /\ parsed[p][1] = e_nofile
    /\ entries[p][1] = e_nofile
    /\ parsed[p][2].file.has
    /\ parsed[p][2].arguments # Some(Arguments(p))
    /\ entries[p][2].arguments = Some(Arguments(p))
    /\ Len(entries[p]) = 2

\* the base directory and the file name of the keys a merge compares: those
\* of the existing entries that have a file, and those of the command line
KeyParts(p) ==
  {<<ValueOr(parsed[p][i].directory, Cwd(p)), parsed[p][i].file.v>> :
     i \in {i \in 1..Len(parsed[p]) : parsed[p][i].file.has}}
    \cup {<<Cwd(p), f.relative_path>> :
            f \in {GetCurrentFiles(Cwd(p), Arguments(p))[k] :
                     k \in 1..Len(GetCurrentFiles(Cwd(p), Arguments(p)))}}

\* C15 as stated: every key UpdateEntries compares is an absolute path, it
\* starts with "/", whatever the directory of the entry and the workspace
\* directory are, an empty or relative directory included.
C15_KeysAbsolute ==
  \A p \in Procs :
    Merged(p) => \A k \in KeyParts(p) : StartsWith(JoinPath(k[1], k[2]), "/")

\* C15: the key UpdateEntries compares is the file name itself when that is
\* absolute or the base directory is empty, and otherwise the base directory,
\* one "/" between, and the file name; so it starts with "/" exactly when the
\* file name or the base directory does.  An entry is refreshed only when its
\* key is, as a string, the key of a file of the command line.
C15_KeysJoined ==
  \A p \in Procs :
    Merged(p) =>
      /\ \A k \in KeyParts(p) :
           LET key == JoinPath(k[1], k[2])
           IN  /\ (StartsWith(k[2], "/") \/ k[1] = <<>>) => key = k[2]
               /\ (~StartsWith(k[2], "/") /\ k[1] # <<>>) =>
                    /\ StartsWith(key, "/") <=> StartsWith(k[1], "/")
                    /\ \/ key = k[1] \o k[2] /\ EndsWith(k[1], "/")
                       \/ key = k[1] \o <<"/">> \o k[2] /\ ~EndsWith(k[1], "/")
      /\ \A i \in 1..Len(parsed[p]) :
           entries[p][i] # parsed[p][i] =>
             /\ parsed[p][i].file.has
             /\ EntryPath(parsed[p][i], Cwd(p)) \in FilesOf(p)

\* a merge of a command line that names a in /w on a database whose entry
\* for a has an empty directory: the keys are a and /w/a, the entry is left as
\* it was and a second entry is appended
C15_Witness ==
  \E p \in Procs :
    /\ Merged(p)
    /\ Cwd(p) = s_w
    /\ parsed[p] = <<e_nodir>>
    /\ EntryPath(e_nodir, Cwd(p)) = s_a
    /\ FilesOf(p) = {s_wa}
    /\ entries[p][1] = e_nodir
    /\ Len(entries[p]) = 2

\* the two directories are the same up to one trailing "/"
SameUpToSlash(a, b) == a = b \/ a = b \o <<"/">> \/ b = a \o <<"/">>

\* C16: when a command line is run with workspace directory /w and then with
\* /w/, or the other way round, every relative file it names has the same
\* key in both runs: the second run finds the entry the first run left for
\* the file, gives it its arguments, and appends no second entry.
C16_TrailingSlash ==
  \A p \in Procs :
    (/\ p > 1 /\ Merged(p)
     /\ inv[p].argv = inv[p - 1].argv
     /\ Cwd(p) # Cwd(p - 1) /\ SameUpToSlash(Cwd(p), Cwd(p - 1))) =>
      /\ FilesOf(p) = FilesOf(p - 1)
      /\ parsed[p] = entries[p - 1]
      /\ Len(entries[p]) = Len(parsed[p])
      /\ \A f \in FilesOf(p) :
           /\ Matches(parsed[p], Cwd(p), f) # {}
           /\ Matches(entries[p], Cwd(p), f) = Matches(parsed[p], Cwd(p), f)
           /\ entries[p][SetMin(Matches(parsed[p], Cwd(p), f))].arguments
                = Some(Arguments(p))

\* the first run, in /w, appended the entry of the relative file a; the
\* second, in /w/, gave that entry its own arguments and appended nothing
C16_Witness ==
  /\ Merged(2)
  /\ inv[2].argv = inv[1].argv
  /\ Cwd(1) = s_w /\ Cwd(2) = s_ws
  /\ Len(entries[1]) > Len(parsed[1])
  /\ entries[1][Len(entries[1])].file = Some(s_a)
  /\ entries[1][Len(entries[1])].directory = Some(s_w)
  /\ Len(entries[2]) = Len(entries[1])
  /\ entries[2][Len(entries[2])].arguments # entries[1][Len(entries[1])].arguments
  /\ entries[2][Len(entries[2])].arguments = Some(Arguments(2))

\* C17: a file given as an absolute path is its own key, whatever the base
\* directory is, as a token of the command line and as the file field of an
\* entry: an existing entry whose file is that path has the key of the token
\* under every workspace directory and every directory field, so the first
\* entry of that key gets the arguments and none is appended for the token.
C17_AbsoluteBypass ==
  \A p \in Procs :
    Merged(p) =>
      LET files == GetCurrentFiles(Cwd(p), Arguments(p))
          abs == {files[k].relative_path : k \in 1..Len(files)}
                   \cap {t \in ArgTokens : StartsWith(t, "/")}
      IN  /\ \A k \in 1..Len(files) :
               StartsWith(files[k].relative_path, "/") =>
                 files[k].absolute_path = files[k].relative_path
          /\ \A i \in 1..Len(parsed[p]) :
               (parsed[p][i].file.has /\ StartsWith(parsed[p][i].file.v, "/")) =>
                 EntryPath(parsed[p][i], Cwd(p)) = parsed[p][i].file.v
          /\ \A t \in abs :
               LET same == {i \in 1..Len(parsed[p]) : parsed[p][i].file = Some(t)}
                   old == Matches(parsed[p], Cwd(p), t)
               IN  same # {} =>
                     /\ same \subseteq old
                     /\ entries[p][SetMin(old)].arguments = Some(Arguments(p))
                     /\ (\A i \in old : parsed[p][i].file.v = t) =>
                          SetMin(old) = SetMin(same)
                     /\ \A k \in (Len(parsed[p]) + 1)..Len(entries[p]) :
                          entries[p][k].file # Some(t)

\* a merge of a command line that names /w/a on a database whose only entry
\* has file /w/a and directory /v: the entry gets the arguments of the
\* invocation and no entry is appended for /w/a
C17_Witness ==
  \E p \in Procs :
    /\ Merged(p)
    /\ parsed[p] = <<e_v>>
    /\ s_wa \in FilesOf(p)
    /\ entries[p][1].arguments = Some(Arguments(p))
    /\ entries[p][1].directory = Some(s_v)
    /\ \A k \in 2..Len(entries[p]) : entries[p][k].file # Some(s_wa)

\* the files of the command line that an entry of db matches
MatchedFiles(p, db) == {f \in FilesOf(p) : Matches(db, Cwd(p), f) # {}}

\* C18: on a database that decodes, an invocation never leaves fewer entries
\* than it found: after it the count is at least the count before, plus the
\* number of distinct absolute paths it names, minus the number of those an
\* existing entry matched; and each run of a sequence finds what the run
\* before left, so the count never decreases along the sequence.
C18_CountGrows ==
  \A p \in Procs :
    /\ Merged(p) =>
         /\ Len(entries[p]) >= Len(parsed[p])
         /\ Len(entries[p]) >= Len(parsed[p]) + Cardinality(FilesOf(p))
                                 - Cardinality(MatchedFiles(p, parsed[p]))
    /\ (p > 1 /\ Merged(p)) =>
         /\ parsed[p] = entries[p - 1]
         /\ Len(entries[p]) >= Len(entries[p - 1])
    /\ (pc[p] = "return" /\ ParseOk(fs[File(p)].v)) =>
         /\ Len(ParsedEntries(fs[File(p)].v)) = Len(entries[p])
         /\ Len(order) >= 1 /\ fs0[File(p)].has /\ ParseOk(fs0[File(p)].v) =>
              Len(ParsedEntries(fs[File(p)].v)) >= Len(ParsedEntries(fs0[File(p)].v))

\* the first run found one entry, matched one of the two files it names and
\* appended an entry for the other; the second run found the two entries and
\* has merged
C18_Witness ==
  /\ Merged(2)
  /\ fs0[File(1)].has /\ ParseOk(fs0[File(1)].v)
  /\ Len(parsed[1]) = 1
  /\ Cardinality(FilesOf(1)) = 2
  /\ Cardinality(MatchedFiles(1, parsed[1])) = 1
  /\ Len(entries[1]) = 2
  /\ Len(parsed[2]) = 2
  /\ Len(entries[2]) >= 2

\* what holds of RewriteFile in every state: in the write loop the bytes
\* written so far are the head of the serialization and are all the file
\* holds, and bytes are left to write; when the loop has ended the file is
\* the serialization; a failed call has ended the invocation with its error
RewriteFileState ==
  \A p \in Procs :
    /\ pc[p] = "write" =>
         /\ json[p] = Stringify(entries[p])
         /\ written[p] < Len(json[p])
         /\ offset[p] = written[p]
         /\ fs[File(p)] = Some(SubSeq(json[p], 1, written[p]))
    /\ pc[p] = "return" =>
         /\ status[p] = "ok"
         /\ written[p] = Len(json[p])
         /\ fs[File(p)] = Some(Stringify(entries[p]))
    /\ status[p] # "ok" => pc[p] = "aborted" /\ ~exec[p].has
    /\ pc[p] \in {"return", "execvp", "compiler", "exit1"} => status[p] = "ok"

\* every write makes the count of bytes left smaller, and the loop goes on
\* exactly while bytes are left
RewriteFileStep ==
  \A p \in Procs :
    pc[p] = "write" =>
      /\ written'[p] >= written[p]
      /\ written'[p] <= Len(json[p])
      /\ written'[p] # written[p] =>
           /\ json'[p] = json[p]
           /\ pc'[p] = IF written'[p] < Len(json[p]) THEN "write" ELSE "return"
      /\ written'[p] = written[p] => pc'[p] \in {"write", "aborted"}
      /\ pc'[p] = "aborted" => status'[p] = "write"

\* C19: for every sequence of partial write results RewriteFile goes on from
\* the first byte not yet written, each write leaves fewer bytes to write, so
\* the loop ends, and when it has ended with OK the file holds the
\* serialization of the entries and nothing else; a failed ftruncate, lseek or
\* write ends the invocation with that error.
C19_WritesCompletely == []RewriteFileState /\ [][RewriteFileStep]_vars

\* a write has written part of the serialization and the loop is about to
\* write the rest
C19_Witness ==
  \E p \in Procs :
    /\ pc[p] = "write"
    /\ written[p] >= 2
    /\ Len(json[p]) - written[p] >= 2
    /\ fs[File(p)] = Some(SubSeq(json[p], 1, written[p]))

\* C20: after the merge the entries that were there before are at the same
\* positions, in the same order, and every entry of a newly discovered file
\* comes after all of them: the new entries are the tail of the sequence, one
\* per file no existing entry matched, in the order of their absolute paths.
C20_OrderPreserved ==
  \A p \in Procs :
    Merged(p) =>
      LET n == Len(parsed[p])
          new == FilesOf(p) \ MatchedFiles(p, parsed[p])
      IN  /\ Len(entries[p]) = n + Cardinality(new)
          /\ \A i \in 1..n :
               /\ entries[p][i].directory = parsed[p][i].directory
               /\ entries[p][i].file = parsed[p][i].file
               /\ entries[p][i].arguments \in
                    {parsed[p][i].arguments, Some(Arguments(p))}
          /\ \A k \in (n + 1)..Len(entries[p]) :
               /\ entries[p][k].file.has
               /\ entries[p][k].directory = Some(Cwd(p))
               /\ EntryPath(entries[p][k], Cwd(p)) \in new
          /\ \A k, l \in (n + 1)..Len(entries[p]) :
               k < l => StrLess(EntryPath(entries[p][k], Cwd(p)),
                                EntryPath(entries[p][l], Cwd(p)))

\* a merge on two different existing entries, the second of which it
\* refreshed, that appended the entry of a new file after them
C20_Witness ==
  \E p \in Procs :
    /\ Merged(p)
    /\ Len(parsed[p]) = 2
    /\ parsed[p][1] # parsed[p][2]
    /\ parsed[p][1].file # parsed[p][2].file
    /\ entries[p][1] = parsed[p][1]
    /\ entries[p][2] # parsed[p][2]
    /\ Len(entries[p]) = 3
    /\ entries[p][3].arguments = Some(Arguments(p))

\* the tokens of args that GetCurrentFiles takes for files
Picked(args) ==
  {i \in 2..Len(args) : ~StartsWith(args[i], "-") /\ ~Consumed(args, i)}

\* C21: the source files of one invocation are one per absolute path: when
\* two tokens of the command line resolve to the same absolute path the set
\* holds one SourceFile, whose relative path is that of the first of these
\* tokens; the merge changes or appends at most one entry for the path, and
\* an appended entry has the first token as its file.
C21_OnePerPath ==
  \A p \in Procs :
    Merged(p) =>
      LET args == Arguments(p)
          cwd == Cwd(p)
          files == GetCurrentFiles(cwd, args)
          n == Len(parsed[p])
      IN  /\ Len(files) = Cardinality(FilesOf(p))
          /\ \A k \in 1..Len(files) :
               LET same == {i \in Picked(args) :
                              JoinPath(cwd, args[i]) = files[k].absolute_path}
               IN  /\ same # {}
                   /\ files[k].relative_path = args[SetMin(same)]
          /\ \A f \in FilesOf(p) :
               LET changed == {i \in 1..n : /\ entries[p][i] # parsed[p][i]
                                            /\ EntryPath(parsed[p][i], cwd) = f}
                   added == {k \in (n + 1)..Len(entries[p]) :
                               EntryPath(entries[p][k], cwd) = f}
                   same == {i \in Picked(args) : JoinPath(cwd, args[i]) = f}
               IN  /\ Cardinality(changed) + Cardinality(added) <= 1
                   /\ \A k \in added : entries[p][k].file = Some(args[SetMin(same)])

\* a merge of a command line that names /w/a and then a in /w, on an empty
\* database: one entry was appended, with file /w/a
C21_Witness ==
  \E p \in Procs :
    /\ Merged(p)
    /\ Cwd(p) = s_w
    /\ parsed[p] = <<>>
    /\ \E i, j \in Picked(Arguments(p)) :
         i < j /\ Arguments(p)[i] = s_wa /\ Arguments(p)[j] = s_a
    /\ Len(entries[p]) = 1
    /\ entries[p][1].file = Some(s_wa)

(***************************************************************************)
(* Fair scheduling of invocations that contend for one database file,      *)
(* absent at the start: flock returns when the lock stays free, and an     *)
(* invocation that is running (it is not waiting for the lock and has not  *)
(* ended) does not stall forever.  Any call may still fail.                *)
(***************************************************************************)
Running ==
  {"main", "read", "update", "ftruncate", "lseek", "write", "return", "execvp"}

InitFair ==
  /\ Init
  /\ \A p \in Procs : inv[p] \in {InvocationList[1], InvocationList[3]}
  /\ \A f \in Paths : fs0[f] = None

SpecFair ==
  /\ InitFair /\ [][NextFault]_vars
  /\ \A p \in Procs : WF_vars(Acquire(p)) /\ []<>(pc[p] \notin Running)

\* the invocation has ended: it is the compiler, or main has returned 1, or
\* CHECK_OK has aborted it
Terminated(p) == pc[p] \in {"compiler", "exit1", "aborted"}

\* an invocation that is out of UpdateCommandFile holds no lock
LockReleased ==
  \A p \in Procs :
    pc[p] \in {"execvp", "compiler", "exit1", "aborted"} =>
      \A f \in Paths : lock[f] # p

\* C22: the lock is released on every way out of UpdateCommandFile, the
\* successful return and every error return, so under fair scheduling no
\* invocation waits for the lock forever: every invocation that waits gets
\* the lock or fails, every invocation whose open succeeds and whose flock
\* does not fail comes to hold the lock, and every invocation ends, by exec
\* or by abort.
C22_NoWaitForever ==
  /\ []LockReleased
  /\ \A p \in Procs : pc[p] = "acquire" ~> pc[p] # "acquire"
  /\ \A p \in Procs :
       <>(\/ \E k \in 1..Len(order) : order[k] = p
          \/ status[p] \in {"open", "getcwd", "flock"})
  /\ \A p \in Procs : <>Terminated(p)

\* one invocation waits for the lock that another, whose write has just
\* failed, has released
C22_Witness ==
  \E p, q \in Procs :
    /\ p # q /\ File(p) = File(q)
    /\ pc[p] = "aborted" /\ status[p] = "write"
    /\ pc[q] = "acquire"
    /\ lock[File(q)] = 0

\* the bytes of a file; a file that does not exist has none
Bytes(content) == ValueOr(content, <<>>)

\* the places of an invocation before RewriteFile
BeforeWriter == {"main", "acquire", "read", "update"}

\* while no invocation has come to RewriteFile, whatever calls have failed,
\* every file has the bytes it had at the start, and a file that existed is
\* as it was; an invocation is in RewriteFile only when its parse and its
\* merge have both returned OK
UntouchedBeforeWriter ==
  /\ (\A q \in Procs : pc[q] \in BeforeWriter \cup {"aborted"}
                       /\ status[q] \in {"ok", "open", "getcwd", "flock", "read"}) =>
       \A f \in Paths : /\ Bytes(fs[f]) = Bytes(fs0[f])
                        /\ fs0[f].has => fs[f] = fs0[f]
  /\ \A p \in Procs :
       /\ status[p] \in {"open", "getcwd", "flock", "read"} =>
            pc[p] = "aborted" /\ written[p] = 0
       /\ pc[p] \in {"ftruncate", "lseek", "write"} =>
            /\ status[p] = "ok"
            /\ lock[File(p)] = p
            /\ entries[p] = UpdateEntries(Arguments(p), Cwd(p), parsed[p])

\* a step of an invocation that is before RewriteFile, a failing one
\* included, changes the bytes of no file
NoWriteBeforeWriter ==
  \A p \in Procs :
    (pc[p] \in BeforeWriter /\ (pc'[p] # pc[p] \/ offset'[p] # offset[p])) =>
      \A f \in Paths : /\ Bytes(fs'[f]) = Bytes(fs[f])
                       /\ fs[f].has => fs'[f] = fs[f]

\* C23: an invocation that fails before RewriteFile (open, getcwd, the lock
\* acquisition or read returns an error) leaves the bytes of the database
\* file as they were: none of its steps before RewriteFile changes them, and
\* ftruncate is called only after the parse and the merge have returned OK.
C23_FailureLeavesFile == []UntouchedBeforeWriter /\ [][NoWriteBeforeWriter]_vars

\* an invocation has read and decoded a database that holds entries, getcwd
\* has failed in UpdateEntries, and the file is as it was at the start
C23_Witness ==
  \E p \in Procs :
    /\ pc[p] = "aborted" /\ status[p] = "getcwd"
    /\ parsed[p] # <<>>
    /\ fs0[File(p)].has /\ fs0[File(p)].v # <<>>
    /\ fs[File(p)] = fs0[File(p)]

=============================================================================
